---- MODULE Spec2Model ----
(***************************************************************************)
(* Model of the download scripts of Ligolearner909.                        *)
(*                                                                         *)
(*   R4/fetchdat.py  the batch driver: for every channel of channels.csv   *)
(*                   and every range of time.csv, fetch the series from    *)
(*                   NDS, write it to <dir>/<start>_<end>/<name>.gwf and   *)
(*                   append one line to fin.txt.                           *)
(*   osdf_demo.py    the discovery-based variant: for every segment of     *)
(*                   tim.csv, find the URLs and download each of them.     *)
(*                                                                         *)
(* Text (channel names, paths, manifest lines) is a sequence of one-       *)
(* character strings, so that replace(), join(), abspath() and the         *)
(* f-strings are computed character by character as Python does.           *)
(***************************************************************************)
EXTENDS Integers, Sequences, FiniteSets, TLC

VARIABLES
    channels,       \* fetchdat.py: rows of channels.csv, the channel column
    time_ranges,    \* rows of time.csv / tim.csv: <<start, end>>
    nds,            \* the remote archive: how it aligns t0 and its sample interval
    run,            \* number of the current run of the script
    pc,             \* position of the script
    ci,             \* rows of channels.csv already iterated (outer loop)
    ri,             \* rows of the time table already iterated (inner loop)
    channel_name,   \* local variables of the script
    channel_dir,
    time_dir_path,
    output_file,
    data,
    dirs,           \* file system: the directories that exist
    files,          \* file system: path -> content of the data files
    fin_disk,       \* fin.txt as it is on disk: the lines written through
    fin_buf,        \* lines held in the buffer of the open file object
    log,            \* the I/O the current run has performed, in order
    base_dir,       \* osdf_demo.py: the directory of the current segment
    urls,           \* osdf_demo.py: the URL list of the current segment
    ui              \* osdf_demo.py: URLs of the current segment already iterated

vars == <<channels, time_ranges, nds, run, pc, ci, ri, channel_name, channel_dir,
          time_dir_path, output_file, data, dirs, files, fin_disk, fin_buf, log,
          base_dir, urls, ui>>

----------------------------------------------------------------------------
(* Bounds of the model *)

MaxChannels == 2
MaxRanges == 2
MaxRuns == 2
MaxUrls == 2
MaxIdLen == 2

----------------------------------------------------------------------------
(* Text *)

None == <<>>

Digits == <<"0", "1", "2", "3", "4", "5", "6", "7", "8", "9">>

RECURSIVE NatToStr(_)
NatToStr(n) ==
    IF n < 10 THEN <<Digits[n + 1]>>
    ELSE NatToStr(n \div 10) \o <<Digits[(n % 10) + 1]>>

\* str(int) as an f-string field formats it
IntToStr(n) == IF n < 0 THEN <<"-">> \o NatToStr(0 - n) ELSE NatToStr(n)

\* str.replace(old, new) for one-character old and new: every occurrence
RECURSIVE Replace(_, _, _)
Replace(s, old, new) ==
    IF s = <<>> THEN <<>>
    ELSE <<IF Head(s) = old THEN new ELSE Head(s)>> \o Replace(Tail(s), old, new)

\* os.path.join(a, b)
Join(a, b) ==
    IF b # <<>> /\ Head(b) = "/" THEN b
    ELSE IF a = <<>> \/ a[Len(a)] = "/" THEN a \o b
    ELSE a \o <<"/">> \o b

\* the working directory the scripts are started in
Cwd == <<"/", "w">>

\* os.path.abspath left out: the manifest would hold the relative path
AbsPath_Relative(p) == p

\* os.path.abspath(p) for a path without ".", ".." or doubled separators
AbsPath(p) == Join(Cwd, p)

\* the directories os.makedirs(p, exist_ok=True) leaves in existence
Ancestors(p) ==
    {SubSeq(p, 1, i - 1) : i \in {j \in 2..Len(p) : p[j] = "/"}} \cup {p}

MakeDirs(ds, p) == ds \cup Ancestors(p)

----------------------------------------------------------------------------
(* Inputs *)

\* channel identifiers of channels.csv
ChannelIds ==
    { <<"H", ":", "A">>, <<"H", "_", "A">>, <<"L", ":", ":">> }

\* rows of time.csv: start < end
TimeRanges == { <<1, 3>>, <<3, 12>> }

SeqsUpTo(S, n) == UNION {[1..k -> S] : k \in 0..n}

\* what the archive returns: t0 = start + skew, and the sample interval dt
Archives == { [skew |-> 0, dt |-> 4], [skew |-> 1, dt |-> 5] }

----------------------------------------------------------------------------
(* fetchdat.py *)

\* str.replace(old, new, 1): the first occurrence only
RECURSIVE ReplaceFirst(_, _, _)
ReplaceFirst(s, old, new) ==
    IF s = <<>> THEN <<>>
    ELSE IF Head(s) = old THEN <<new>> \o Tail(s)
    ELSE <<Head(s)>> \o ReplaceFirst(Tail(s), old, new)

\* only the first colon replaced
ChannelDir_FirstColon(name) == ReplaceFirst(name, ":", "_")

\* line 31
ChannelDir(name) == Replace(name, ":", "_")

\* line 42
TimeDirPath(dir, start, end) ==
    Join(dir, IntToStr(start) \o <<"_">> \o IntToStr(end))

\* lines 46-48
OutputFile(tdir, name, start, end) ==
    Join(tdir, Replace(name, ":", "_") \o <<"_">> \o IntToStr(start) \o <<"_">>
               \o IntToStr(end) \o <<".", "g", "w", "f">>)

\* the manifest line without the two trailing zero fields
FinLine_NoFlags(path, t0, dt) ==
    AbsPath(path) \o <<" ">> \o IntToStr(t0) \o <<" ">> \o IntToStr(dt) \o <<"\n">>

\* line 59: the text of one manifest line
FinLine(path, t0, dt) ==
    AbsPath(path) \o <<" ">> \o IntToStr(t0) \o <<" ">> \o IntToStr(dt)
        \o <<" ", "0", " ", "0", "\n">>

\* TimeSeries.fetch(channel, start, end): the series the archive returns
Series(name, start, end) ==
    [channel |-> name, start |-> start, end |-> end,
     t0 |-> start + nds.skew, dt |-> nds.dt]

Locals0 ==
    /\ ci = 0 /\ ri = 0
    /\ channel_name = None /\ channel_dir = None
    /\ time_dir_path = None /\ output_file = None /\ data = None

Init ==
    /\ channels \in SeqsUpTo(ChannelIds, MaxChannels)
    /\ time_ranges \in SeqsUpTo(TimeRanges, MaxRanges)
    /\ nds \in Archives
    /\ run = 1
    /\ pc = "start"
    /\ Locals0
    /\ dirs = {} /\ files = <<>>
    /\ fin_disk = <<>> /\ fin_buf = <<>>
    /\ log = <<>>
    /\ base_dir = None /\ urls = <<>> /\ ui = 0

\* fin.txt opened with 'w': what it held is cut off
OpenFin_Truncate ==
    /\ pc = "start"
    /\ pc' = "channels"
    /\ fin_disk' = <<>>
    /\ fin_buf' = <<>>
    /\ log' = Append(log, [op |-> "open"])
    /\ UNCHANGED <<channels, time_ranges, nds, run, ci, ri, channel_name, channel_dir,
                   time_dir_path, output_file, data, dirs, files, base_dir, urls, ui>>

\* line 23: open(fin_file, 'a')
OpenFin ==
    /\ pc = "start"
    /\ pc' = "channels"
    /\ fin_buf' = <<>>
    /\ log' = Append(log, [op |-> "open"])
    /\ UNCHANGED <<channels, time_ranges, nds, run, ci, ri, channel_name, channel_dir,
                   time_dir_path, output_file, data, dirs, files, fin_disk, base_dir, urls, ui>>

\* the channel directory is not made; os.makedirs of line 43 would make it later
NextChannel_NoMkdir ==
    /\ pc = "channels"
    /\ ci < Len(channels)
    /\ ci' = ci + 1
    /\ ri' = 0
    /\ channel_name' = channels[ci + 1]
    /\ channel_dir' = ChannelDir(channels[ci + 1])
    /\ pc' = "ranges"
    /\ UNCHANGED <<channels, time_ranges, nds, run, time_dir_path, output_file, data,
                   dirs, files, fin_disk, fin_buf, log, base_dir, urls, ui>>

\* the range rows iterated only once: no range is left for the second channel
NextChannel_RangesOnce ==
    /\ pc = "channels"
    /\ ci < Len(channels)
    /\ ci' = ci + 1
    /\ ri' = ri
    /\ channel_name' = channels[ci + 1]
    /\ channel_dir' = ChannelDir(channels[ci + 1])
    /\ dirs' = MakeDirs(dirs, ChannelDir(channels[ci + 1]))
    /\ log' = Append(log, [op |-> "mkdir", path |-> ChannelDir(channels[ci + 1])])
    /\ pc' = "ranges"
    /\ UNCHANGED <<channels, time_ranges, nds, run, time_dir_path, output_file, data,
                   files, fin_disk, fin_buf, base_dir, urls, ui>>

\* lines 26-32: the next row of channels.csv; its directory is created
NextChannel ==
    /\ pc = "channels"
    /\ ci < Len(channels)
    /\ ci' = ci + 1
    /\ ri' = 0
    /\ channel_name' = channels[ci + 1]
    /\ channel_dir' = ChannelDir(channels[ci + 1])
    /\ dirs' = MakeDirs(dirs, ChannelDir(channels[ci + 1]))
    /\ log' = Append(log, [op |-> "mkdir", path |-> ChannelDir(channels[ci + 1])])
    /\ pc' = "ranges"
    /\ UNCHANGED <<channels, time_ranges, nds, run, time_dir_path, output_file, data,
                   files, fin_disk, fin_buf, base_dir, urls, ui>>

\* line 26 exhausted: the with block ends and closes fin.txt, which flushes it
Finish ==
    /\ pc = "channels"
    /\ ci = Len(channels)
    /\ fin_disk' = fin_disk \o fin_buf
    /\ fin_buf' = <<>>
    /\ log' = Append(log, [op |-> "close"])
    /\ pc' = "done"
    /\ UNCHANGED <<channels, time_ranges, nds, run, ci, ri, channel_name, channel_dir,
                   time_dir_path, output_file, data, dirs, files, base_dir, urls, ui>>

\* lines 34-39: the next row of time.csv; the fetch returns a series
FetchOk ==
    /\ pc = "ranges"
    /\ ri < Len(time_ranges)
    /\ LET start_time == time_ranges[ri + 1][1]
           end_time == time_ranges[ri + 1][2]
       IN /\ data' = Series(channel_name, start_time, end_time)
          /\ log' = Append(log, [op |-> "fetch", channel |-> channel_name,
                                 start |-> start_time, end |-> end_time, ok |-> TRUE])
    /\ ri' = ri + 1
    /\ pc' = "mkdir"
    /\ UNCHANGED <<channels, time_ranges, nds, run, ci, channel_name, channel_dir,
                   time_dir_path, output_file, dirs, files, fin_disk, fin_buf, base_dir, urls, ui>>

\* line 39 raises: nothing catches it, the with block closes fin.txt on the way
\* out and the script ends with a traceback
FetchFail ==
    /\ pc = "ranges"
    /\ ri < Len(time_ranges)
    /\ LET start_time == time_ranges[ri + 1][1]
           end_time == time_ranges[ri + 1][2]
       IN log' = Append(Append(log, [op |-> "fetch", channel |-> channel_name,
                                     start |-> start_time, end |-> end_time, ok |-> FALSE]),
                        [op |-> "close"])
    /\ ri' = ri + 1
    /\ fin_disk' = fin_disk \o fin_buf
    /\ fin_buf' = <<>>
    /\ pc' = "failed"
    /\ UNCHANGED <<channels, time_ranges, nds, run, ci, channel_name, channel_dir,
                   time_dir_path, output_file, data, dirs, files, base_dir, urls, ui>>

\* line 34 exhausted: back to the outer loop
EndRanges ==
    /\ pc = "ranges"
    /\ ri = Len(time_ranges)
    /\ pc' = "channels"
    /\ UNCHANGED <<channels, time_ranges, nds, run, ci, ri, channel_name, channel_dir,
                   time_dir_path, output_file, data, dirs, files, fin_disk, fin_buf,
                   log, base_dir, urls, ui>>

\* lines 42-43
MakeTimeDir ==
    /\ pc = "mkdir"
    /\ LET p == TimeDirPath(channel_dir, data.start, data.end)
       IN /\ time_dir_path' = p
          /\ dirs' = MakeDirs(dirs, p)
          /\ log' = Append(log, [op |-> "mkdir", path |-> p])
    /\ pc' = "write"
    /\ UNCHANGED <<channels, time_ranges, nds, run, ci, ri, channel_name, channel_dir,
                   output_file, data, files, fin_disk, fin_buf, base_dir, urls, ui>>

\* the file system after path p is written with content c
WriteFile(fs, p, c) ==
    [q \in DOMAIN fs \cup {p} |-> IF q = p THEN c ELSE fs[q]]

\* lines 46-52
WriteData ==
    /\ pc = "write"
    /\ LET p == OutputFile(time_dir_path, channel_name, data.start, data.end)
       IN /\ output_file' = p
          /\ files' = WriteFile(files, p, data)
          /\ log' = Append(log, [op |-> "write", path |-> p])
    /\ pc' = "record"
    /\ UNCHANGED <<channels, time_ranges, nds, run, ci, ri, channel_name, channel_dir,
                   time_dir_path, data, dirs, fin_disk, fin_buf, base_dir, urls, ui>>

\* lines 55-60: fin.write() puts the line into the buffer of the file object
AppendFin ==
    /\ pc = "record"
    /\ LET line == FinLine(output_file, data.t0, data.dt)
       IN /\ fin_buf' = Append(fin_buf, line)
          /\ log' = Append(log, [op |-> "append", line |-> line])
    /\ pc' = "ranges"
    /\ UNCHANGED <<channels, time_ranges, nds, run, ci, ri, channel_name, channel_dir,
                   time_dir_path, output_file, data, dirs, files, fin_disk, base_dir, urls, ui>>

Running == pc \in {"channels", "ranges", "mkdir", "write", "record"}

\* the buffered writer writes its buffer through when it is full; when that
\* happens depends on the length of the lines
BufferFull ==
    /\ Running
    /\ fin_buf # <<>>
    /\ fin_disk' = fin_disk \o fin_buf
    /\ fin_buf' = <<>>
    /\ UNCHANGED <<channels, time_ranges, nds, run, pc, ci, ri, channel_name,
                   channel_dir, time_dir_path, output_file, data, dirs, files, log,
                   base_dir, urls, ui>>

\* the process is killed (or the machine stops): what is in the buffer is lost
Crash ==
    /\ Running
    /\ pc' = "killed"
    /\ fin_buf' = <<>>
    /\ UNCHANGED <<channels, time_ranges, nds, run, ci, ri, channel_name, channel_dir,
                   time_dir_path, output_file, data, dirs, files, fin_disk, log,
                   base_dir, urls, ui>>

\* the script is started again with the same CSV files, after a run that ended
Rerun ==
    /\ pc = "done"
    /\ run < MaxRuns
    /\ run' = run + 1
    /\ pc' = "start"
    /\ ci' = 0 /\ ri' = 0
    /\ channel_name' = None /\ channel_dir' = None
    /\ time_dir_path' = None /\ output_file' = None /\ data' = None
    /\ log' = <<>>
    /\ UNCHANGED <<channels, time_ranges, nds, dirs, files, fin_disk, fin_buf, base_dir, urls, ui>>

Next ==
    \/ OpenFin
    \/ NextChannel
    \/ Finish
    \/ FetchOk
    \/ FetchFail
    \/ EndRanges
    \/ MakeTimeDir
    \/ WriteData
    \/ AppendFin
    \/ BufferFull
    \/ Crash
    \/ Rerun

Spec == Init /\ [][Next]_vars

----------------------------------------------------------------------------
(* osdf_demo.py *)

\* line 10
osdf_channel_name ==
    <<"H", "1", "_", "G", "W", "O", "S", "C", "_", "O", "3", "a", "_",
      "4", "K", "H", "Z", "_", "R", "1">>

\* find_urls(...): the URL lists the discovery service may return for a segment
UrlLists(start, end) ==
    {[j \in 1..k |-> [start |-> start, end |-> end, n |-> j]] : k \in 0..MaxUrls}

\* rp.get(url).content
Content(url) == [of |-> url]

\* line 29
BaseDir(start, end) ==
    osdf_channel_name \o <<"/">> \o IntToStr(start) \o <<"_">> \o IntToStr(end)

\* lines 39-40
FilePath(dir, start, end) ==
    Join(dir, osdf_channel_name \o <<"_">> \o IntToStr(start) \o <<"_">>
              \o IntToStr(end) \o <<".", "g", "w", "f">>)

InitOsdf ==
    /\ channels = <<>>
    /\ time_ranges \in SeqsUpTo(TimeRanges, MaxRanges)
    /\ nds = [skew |-> 0, dt |-> 4]
    /\ run = 1
    /\ pc = "rows"
    /\ Locals0
    /\ dirs = {} /\ files = <<>>
    /\ fin_disk = <<>> /\ fin_buf = <<>>
    /\ log = <<>>
    /\ base_dir = None /\ urls = <<>> /\ ui = 0

\* lines 17-26: the next row; the discovery returns no URL
FindNone ==
    /\ pc = "rows"
    /\ ri < Len(time_ranges)
    /\ ri' = ri + 1
    /\ LET start == time_ranges[ri + 1][1]
           end == time_ranges[ri + 1][2]
       IN log' = Append(log, [op |-> "find", start |-> start, end |-> end,
                              ok |-> TRUE, urls |-> <<>>])
    /\ UNCHANGED <<channels, time_ranges, nds, run, pc, ci, channel_name, channel_dir,
                   time_dir_path, output_file, data, dirs, files, fin_disk, fin_buf,
                   base_dir, urls, ui>>

\* lines 17-30: the next row; the discovery returns URLs and the directory is made
FindSome ==
    /\ pc = "rows"
    /\ ri < Len(time_ranges)
    /\ ri' = ri + 1
    /\ LET start == time_ranges[ri + 1][1]
           end == time_ranges[ri + 1][2]
       IN /\ \E us \in UrlLists(start, end) :
                /\ us # <<>>
                /\ urls' = us
          /\ base_dir' = BaseDir(start, end)
          /\ dirs' = MakeDirs(dirs, BaseDir(start, end))
          /\ log' = Append(Append(log,
                        [op |-> "find", start |-> start, end |-> end,
                         ok |-> TRUE, urls |-> urls']),
                        [op |-> "mkdir", path |-> BaseDir(start, end)])
    /\ ui' = 0
    /\ pc' = "urls"
    /\ UNCHANGED <<channels, time_ranges, nds, run, ci, channel_name, channel_dir,
                   time_dir_path, output_file, data, files, fin_disk, fin_buf>>

\* line 22 raises: nothing catches it and the script ends
FindFail ==
    /\ pc = "rows"
    /\ ri < Len(time_ranges)
    /\ ri' = ri + 1
    /\ LET start == time_ranges[ri + 1][1]
           end == time_ranges[ri + 1][2]
       IN log' = Append(log, [op |-> "find", start |-> start, end |-> end,
                              ok |-> FALSE, urls |-> <<>>])
    /\ pc' = "failed"
    /\ UNCHANGED <<channels, time_ranges, nds, run, ci, channel_name, channel_dir,
                   time_dir_path, output_file, data, dirs, files, fin_disk, fin_buf,
                   base_dir, urls, ui>>

\* the file opened with "xb": a file already there is kept
DownloadOk_KeepFirst ==
    /\ pc = "urls"
    /\ ui < Len(urls)
    /\ ui' = ui + 1
    /\ LET url == urls[ui + 1]
           filepath == FilePath(base_dir, url.start, url.end)
       IN /\ files' = IF filepath \in DOMAIN files THEN files
                       ELSE WriteFile(files, filepath, Content(url))
          /\ log' = Append(Append(log, [op |-> "get", url |-> url, ok |-> TRUE]),
                           [op |-> "write", path |-> filepath])
    /\ UNCHANGED <<channels, time_ranges, nds, run, pc, ci, ri, channel_name,
                   channel_dir, time_dir_path, output_file, data, dirs, fin_disk,
                   fin_buf, base_dir, urls>>

\* lines 32-50: the next URL is downloaded and saved
DownloadOk ==
    /\ pc = "urls"
    /\ ui < Len(urls)
    /\ ui' = ui + 1
    /\ LET url == urls[ui + 1]
           filepath == FilePath(base_dir, url.start, url.end)
       IN /\ files' = WriteFile(files, filepath, Content(url))
          /\ log' = Append(Append(log, [op |-> "get", url |-> url, ok |-> TRUE]),
                           [op |-> "write", path |-> filepath])
    /\ UNCHANGED <<channels, time_ranges, nds, run, pc, ci, ri, channel_name,
                   channel_dir, time_dir_path, output_file, data, dirs, fin_disk,
                   fin_buf, base_dir, urls>>

\* the try block around the loop instead of inside it: a failure ends the loop
DownloadFail_Break ==
    /\ pc = "urls"
    /\ ui < Len(urls)
    /\ ui' = ui + 1
    /\ pc' = "rows"
    /\ log' = Append(log, [op |-> "get", url |-> urls[ui + 1], ok |-> FALSE])
    /\ UNCHANGED <<channels, time_ranges, nds, run, ci, ri, channel_name,
                   channel_dir, time_dir_path, output_file, data, dirs, files,
                   fin_disk, fin_buf, base_dir, urls>>

\* lines 32-36, 52-53: rp.get raises, the except clause prints and the loop goes on
DownloadFail ==
    /\ pc = "urls"
    /\ ui < Len(urls)
    /\ ui' = ui + 1
    /\ log' = Append(log, [op |-> "get", url |-> urls[ui + 1], ok |-> FALSE])
    /\ UNCHANGED <<channels, time_ranges, nds, run, pc, ci, ri, channel_name,
                   channel_dir, time_dir_path, output_file, data, dirs, files,
                   fin_disk, fin_buf, base_dir, urls>>

\* line 32 exhausted: back to the rows
EndUrls ==
    /\ pc = "urls"
    /\ ui = Len(urls)
    /\ pc' = "rows"
    /\ UNCHANGED <<channels, time_ranges, nds, run, ci, ri, channel_name, channel_dir,
                   time_dir_path, output_file, data, dirs, files, fin_disk, fin_buf,
                   log, base_dir, urls, ui>>

\* line 17 exhausted: the script ends
EndRows ==
    /\ pc = "rows"
    /\ ri = Len(time_ranges)
    /\ pc' = "done"
    /\ UNCHANGED <<channels, time_ranges, nds, run, ci, ri, channel_name, channel_dir,
                   time_dir_path, output_file, data, dirs, files, fin_disk, fin_buf,
                   log, base_dir, urls, ui>>

NextOsdf ==
    \/ FindNone
    \/ FindSome
    \/ FindFail
    \/ DownloadOk
    \/ DownloadFail
    \/ EndUrls
    \/ EndRows

SpecOsdf == InitOsdf /\ [][NextOsdf]_vars

----------------------------------------------------------------------------
(* fetchdat.py on arbitrary channel names: the driver runs once over two    *)
(* channels and one range, every fetch succeeding                           *)

Alphabet == {"H", ":", "_"}

\* every channel name of 1..MaxIdLen characters
Names == UNION {[1..k -> Alphabet] : k \in 1..MaxIdLen}

InitSanitize ==
    /\ channels \in [1..2 -> Names]
    /\ time_ranges = <<<<1, 3>>>>
    /\ nds = [skew |-> 0, dt |-> 4]
    /\ run = 1
    /\ pc = "start"
    /\ Locals0
    /\ dirs = {} /\ files = <<>>
    /\ fin_disk = <<>> /\ fin_buf = <<>>
    /\ log = <<>>
    /\ base_dir = None /\ urls = <<>> /\ ui = 0

NextSanitize ==
    \/ OpenFin
    \/ NextChannel
    \/ Finish
    \/ FetchOk
    \/ EndRanges
    \/ MakeTimeDir
    \/ WriteData
    \/ AppendFin

SpecSanitize == InitSanitize /\ [][NextSanitize]_vars

----------------------------------------------------------------------------
(* Vocabulary of the properties *)

Last(s) == s[Len(s)]

\* the directory a file path lies in
RECURSIVE DirName(_)
DirName(p) ==
    IF p = <<>> THEN <<>>
    ELSE IF p[Len(p)] = "/" THEN SubSeq(p, 1, Len(p) - 1)
    ELSE DirName(SubSeq(p, 1, Len(p) - 1))

IsPrefix(s, t) == Len(s) <= Len(t) /\ SubSeq(t, 1, Len(s)) = s

IsSuffix(s, t) == Len(s) <= Len(t) /\ SubSeq(t, Len(t) - Len(s) + 1, Len(t)) = s

Injective(s) == \A i, j \in DOMAIN s : s[i] = s[j] => i = j

\* the events of one kind, in order
Events(l, kind) == LET Is(e) == e.op = kind IN SelectSeq(l, Is)

Count(l, kind) == Len(Events(l, kind))

\* the text cut at every separator, as str.split(sep) cuts it
RECURSIVE Split(_, _)
Split(s, sep) ==
    IF \A i \in DOMAIN s : s[i] # sep THEN <<s>>
    ELSE LET k == CHOOSE i \in DOMAIN s : s[i] = sep /\ \A j \in 1..(i - 1) : s[j] # sep
         IN <<SubSeq(s, 1, k - 1)>> \o Split(SubSeq(s, k + 1, Len(s)), sep)

\* the lines the current run has appended to fin.txt
Appended == [k \in DOMAIN Events(log, "append") |-> Events(log, "append")[k].line]

\* the pairs of the cross product, counted in row-major order from 1
NPairs == Len(channels) * Len(time_ranges)

PairChannel(k) == channels[((k - 1) \div Len(time_ranges)) + 1]

PairRange(k) == time_ranges[((k - 1) % Len(time_ranges)) + 1]

\* <sanitized channel>/<start>_<end> and the file in it, written out in full
PairDir(k) ==
    ChannelDir(PairChannel(k)) \o <<"/">> \o IntToStr(PairRange(k)[1]) \o <<"_">>
        \o IntToStr(PairRange(k)[2])

PairFile(k) ==
    PairDir(k) \o <<"/">> \o ChannelDir(PairChannel(k)) \o <<"_">>
        \o IntToStr(PairRange(k)[1]) \o <<"_">> \o IntToStr(PairRange(k)[2])
        \o <<".", "g", "w", "f">>

DistinctPairs == Injective(channels) /\ Injective(time_ranges)

----------------------------------------------------------------------------
(* C1: after a run of the batch driver in which every fetch and write      *)
(* succeeded, with distinct pairs, every pair has exactly one output file  *)
(* (the only file of its directory), the run appended exactly one manifest *)
(* line per pair, and the path field of the pair's line is the absolute    *)
(* path of the pair's file.                                                *)
C1_OneFileOneLinePerPair ==
    (pc = "done" /\ DistinctPairs) =>
        /\ Len(Appended) = NPairs
        /\ IsSuffix(Appended, fin_disk)
        /\ \A k \in 1..NPairs :
              /\ {f \in DOMAIN files : DirName(f) = PairDir(k)} = {PairFile(k)}
              /\ Split(Appended[k], " ")[1] = Cwd \o <<"/">> \o PairFile(k)

C1_Witness ==
    /\ pc = "done" /\ DistinctPairs
    /\ Len(channels) = 2 /\ Len(time_ranges) = 2
    /\ Len(Appended) = 4

----------------------------------------------------------------------------
(* C2: the manifest line of a pair is flushed to fin.txt right after the   *)
(* append, before the next pair's fetch begins, so that after a crash      *)
(* every line appended so far is on disk.                                  *)
C2_FlushedAfterAppend ==
    pc \in {"ranges", "channels", "killed"} => IsSuffix(Appended, fin_disk)

----------------------------------------------------------------------------
FailedFetches == LET Bad(e) == e.op = "fetch" /\ ~e.ok IN SelectSeq(log, Bad)

(* C3: if exactly one fetch fails among the N pairs, the driver still      *)
(* processes the other pairs: N fetches are attempted and N-1 files and    *)
(* N-1 manifest lines are produced.                                        *)
C3_SkipAndContinue ==
    (pc \in {"done", "failed"} /\ Len(FailedFetches) = 1) =>
        /\ Count(log, "fetch") = NPairs
        /\ Count(log, "write") = NPairs - 1
        /\ Len(Appended) = NPairs - 1

----------------------------------------------------------------------------
(* C4: the fetches are made in row-major order, channels outside and       *)
(* ranges inside; C*R of them when none fails; and the write and the       *)
(* append of a pair are done before the next pair is fetched.              *)
C4_RowMajorSequential ==
    LET fetches == Events(log, "fetch")
    IN /\ \A k \in DOMAIN fetches :
             /\ k <= NPairs
             /\ fetches[k].channel = PairChannel(k)
             /\ <<fetches[k].start, fetches[k].end>> = PairRange(k)
       /\ (log # <<>> /\ Last(log).op = "fetch") =>
             /\ Count(log, "write") = Len(fetches) - 1
             /\ Count(log, "append") = Len(fetches) - 1
       /\ pc \in {"mkdir", "write", "record"} => Last(fetches).ok
       /\ pc = "record" => Count(log, "write") = Len(fetches)
       /\ pc = "ranges" => Count(log, "append") = Len(fetches)
       /\ pc = "done" => Len(fetches) = NPairs

C4_Witness ==
    /\ pc = "done"
    /\ Len(channels) = 2 /\ Len(time_ranges) = 2
    /\ channels[1] # channels[2] /\ time_ranges[1] # time_ranges[2]
    /\ Count(log, "fetch") = 4

----------------------------------------------------------------------------
CurrentTimeDir ==
    channel_dir \o <<"/">> \o IntToStr(time_ranges[ri][1]) \o <<"_">>
        \o IntToStr(time_ranges[ri][2])

SameDirEarlier ==
    LET fetches == Events(log, "fetch")
    IN \E j \in 1..(Len(fetches) - 1) :
          /\ ChannelDir(fetches[j].channel) = channel_dir
          /\ <<fetches[j].start, fetches[j].end>> = time_ranges[ri]
          /\ fetches[j].ok

(* C5, as the specification states it: the time-range directory of a pair  *)
(* exists before the pair is fetched, so it exists whenever the fetch has  *)
(* returned or has failed.                                                 *)
C5_TimeDirBeforeFetch ==
    pc \in {"mkdir", "failed"} => CurrentTimeDir \in dirs

(* C5, as the code has it: before the fetch only the channel directory is  *)
(* created; the time-range directory is created after the fetch returned   *)
(* and before the file is written, so after a failed fetch it exists only  *)
(* if an earlier pair or run made the same directory.                      *)
C5_TimeDirAfterFetch ==
    /\ (log # <<>> /\ Last(log).op = "fetch") =>
          /\ \E j \in 1..(Len(log) - 1) :
                log[j] = [op |-> "mkdir", path |-> ChannelDir(Last(log).channel)]
          /\ log[Len(log) - 1].op = "mkdir" =>
                log[Len(log) - 1].path = ChannelDir(Last(log).channel)
    /\ (Len(log) > 1 /\ log[Len(log) - 1].op = "fetch") =>
          IF ~log[Len(log) - 1].ok THEN Last(log) = [op |-> "close"]
          ELSE Last(log) = [op |-> "mkdir",
                          path |-> ChannelDir(log[Len(log) - 1].channel) \o <<"/">>
                                   \o IntToStr(log[Len(log) - 1].start) \o <<"_">>
                                   \o IntToStr(log[Len(log) - 1].end)]
    /\ pc \in {"mkdir", "failed"} =>
          /\ channel_dir \in dirs
          /\ (run = 1 /\ ~SameDirEarlier) => CurrentTimeDir \notin dirs
    /\ pc \in {"write", "record"} => CurrentTimeDir \in dirs

C5_Witness ==
    /\ pc = "failed"
    /\ Count(log, "fetch") = 2
    /\ channel_dir \in dirs
    /\ CurrentTimeDir \notin dirs

----------------------------------------------------------------------------
ExpectedDirs ==
    {ChannelDir(channels[i]) : i \in DOMAIN channels}
        \cup UNION {Ancestors(PairDir(k)) : k \in 1..NPairs}

ExpectedFiles == {PairFile(k) : k \in 1..NPairs}

C6_RunStep ==
    /\ IsPrefix(fin_disk, fin_disk')
    /\ pc' = "done" =>
          /\ dirs' = ExpectedDirs
          /\ DOMAIN files' = ExpectedFiles
          /\ Len(fin_disk') = run' * NPairs
          /\ \A r \in 0..(run' - 1) : \A k \in 1..NPairs :
                Split(fin_disk'[r * NPairs + k], " ")[1] = Cwd \o <<"/">> \o PairFile(k)

(* C6: a second run with the same inputs leaves the same directories and   *)
(* the same file paths as the first, and the manifest grows by one line    *)
(* per pair in each run: after r runs it holds r lines per pair, and no    *)
(* line already in fin.txt is ever removed or changed.                     *)
C6_RerunIdempotent == [][C6_RunStep]_vars

C6_Witness ==
    /\ pc = "done" /\ run = 2
    /\ NPairs = 4
    /\ Len(fin_disk) = 8
    /\ SubSeq(fin_disk, 1, 4) = SubSeq(fin_disk, 5, 8)

----------------------------------------------------------------------------
----------------------------------------------------------------------------
Sanitized(c) == [i \in 1..Len(c) |-> IF c[i] = ":" THEN "_" ELSE c[i]]

DifferOutsideColon(a, b) ==
    \E i \in 1..Len(a) :
        i <= Len(b) /\ a[i] # b[i] /\ a[i] # ":" /\ b[i] # ":"

\* the directories made for the channels, in order: those of line 32
ChannelDirsMade ==
    LET Top(e) == e.op = "mkdir" /\ \A i \in DOMAIN e.path : e.path[i] # "/"
    IN SelectSeq(log, Top)

(* C8: the channel directory and the file-name prefix are the channel id   *)
(* with every colon replaced by an underscore and every other character    *)
(* unchanged; two ids that differ at a position where neither has a colon  *)
(* get different directories.                                              *)
C8_Sanitization ==
    /\ Len(ChannelDirsMade) = ci
    /\ \A k \in DOMAIN ChannelDirsMade :
          ChannelDirsMade[k].path = Sanitized(channels[k])
    /\ \A k \in DOMAIN Events(log, "write") :
          LET parts == Split(Events(log, "write")[k].path, "/")
          IN /\ Len(parts) = 3
             /\ parts[1] = Sanitized(channels[k])
             /\ IsPrefix(Sanitized(channels[k]) \o <<"_", "1", "_", "3", ".">>, parts[3])
    /\ \A j, k \in DOMAIN ChannelDirsMade :
          DifferOutsideColon(channels[j], channels[k]) =>
              ChannelDirsMade[j].path # ChannelDirsMade[k].path

C8_Witness ==
    /\ pc = "done"
    /\ channels[1] = <<":", ":">>
    /\ channels[2] = <<"H", ":">>
    /\ <<"_", "_">> \in dirs /\ <<"H", "_">> \in dirs
    /\ Count(log, "write") = 2

----------------------------------------------------------------------------
FindIdx ==
    LET IsFind(i) == log[i].op = "find"
    IN SelectSeq([i \in 1..Len(log) |-> i], IsFind)

\* what the script did for the k-th discovery call: the events up to the next one
Segment(k) ==
    SubSeq(log, FindIdx[k] + 1,
           IF k < Len(FindIdx) THEN FindIdx[k + 1] - 1 ELSE Len(log))

Gets(k) == Events(Segment(k), "get")

SegDir(start, end) ==
    osdf_channel_name \o <<"/">> \o IntToStr(start) \o <<"_">> \o IntToStr(end)

SegFile(start, end) ==
    SegDir(start, end) \o <<"/">> \o osdf_channel_name \o <<"_">> \o IntToStr(start)
        \o <<"_">> \o IntToStr(end) \o <<".", "g", "w", "f">>

(* C9: in osdf_demo.py, as long as the discovery call returns, every row   *)
(* gets exactly one discovery call, in CSV order; a row with no URL makes  *)
(* no directory and no download; and every URL of a row is attempted, in   *)
(* order, whether or not an earlier download raised.                       *)
C9_EverySegmentAttempted ==
    /\ Len(FindIdx) = ri
    /\ \A k \in DOMAIN FindIdx :
          /\ <<log[FindIdx[k]].start, log[FindIdx[k]].end>> = time_ranges[k]
          /\ log[FindIdx[k]].urls = <<>> => Segment(k) = <<>>
          /\ IsPrefix([j \in DOMAIN Gets(k) |-> Gets(k)[j].url], log[FindIdx[k]].urls)
          /\ (k < Len(FindIdx) \/ pc \in {"rows", "done"}) =>
                [j \in DOMAIN Gets(k) |-> Gets(k)[j].url] = log[FindIdx[k]].urls
    /\ pc = "done" => Len(FindIdx) = Len(time_ranges)
    /\ dirs = UNION {Ancestors(SegDir(log[i].start, log[i].end)) :
                        i \in {j \in DOMAIN log : log[j].op = "find" /\ log[j].urls # <<>>}}

C9_Witness ==
    /\ pc = "done"
    /\ Len(FindIdx) = 2
    /\ log[FindIdx[1]].urls = <<>>
    /\ Len(Gets(2)) = 2
    /\ ~Gets(2)[1].ok /\ Gets(2)[2].ok
    /\ Cardinality(dirs) = 2

----------------------------------------------------------------------------
OkGets(k) == LET Good(e) == e.ok IN SelectSeq(Gets(k), Good)

(* C10: in osdf_demo.py every URL of a segment is saved to the same path,  *)
(* so a segment has at most one output file, and once a download of the    *)
(* segment has succeeded the file holds the content of the last URL whose  *)
(* download succeeded.                                                     *)
C10_OneFilePerSegment ==
    /\ \A f \in DOMAIN files :
          \E k \in 1..ri : f = SegFile(time_ranges[k][1], time_ranges[k][2])
    /\ \A k \in 1..ri :
          Cardinality({f \in DOMAIN files :
                          DirName(f) = SegDir(time_ranges[k][1], time_ranges[k][2])}) <= 1
    /\ (pc \in {"urls", "rows", "done"} /\ FindIdx # <<>>) =>
          LET k == Len(FindIdx)
              f == SegFile(time_ranges[k][1], time_ranges[k][2])
          IN OkGets(k) # <<>> =>
                /\ f \in DOMAIN files
                /\ files[f] = [of |-> Last(OkGets(k)).url]

C10_Witness ==
    /\ pc = "rows"
    /\ FindIdx # <<>>
    /\ Len(OkGets(Len(FindIdx))) = 2
    /\ Cardinality(DOMAIN files) = 1
    /\ \E f \in DOMAIN files : files[f].of.n = 2

====
